---- MODULE Spec2Model ----
(***************************************************************************)
(* Model of task-manager/redis-tools/redis_group_query.py: one run of the  *)
(* command-line tool against a Redis store.                                *)
(*                                                                         *)
(* Strings that the program only compares or prints whole are TLA+         *)
(* strings.  Strings whose contents are inspected (key names matched by    *)
(* the store's glob matcher, string values handed to the JSON parser) are  *)
(* sequences of tokens, each token one unit of the text.                   *)
(***************************************************************************)
EXTENDS Integers, Sequences, FiniteSets, TLC

VARIABLES
    pc,            \* position of main()
    args_patterns, \* args.patterns as parsed by argparse (<<>> : flag absent)
    store,         \* the Redis database: key -> [type, value]
    r,             \* the client returned by connect_to_redis ("None" or "client")
    patterns,      \* the list handed to query_groups
    pidx,          \* index of the pattern the outer loop of query_groups is at
    keys,          \* keys of the current pattern still to fetch (inner loop)
    all_groups,    \* the result dict, insertion-ordered: sequence of <<key, info>>
    didx,          \* index of the entry display_group_info is at
    output,        \* what has been printed, line by line
    cmds,          \* every command sent to the store, in order
    found,         \* what get_all_keys returned for each scanned pattern
    calls,         \* one record per completed get_group_info call
    faults,        \* how many store commands have raised so far
    store0         \* the store as it was before the run

vars == <<pc, args_patterns, store, r, patterns, pidx, keys, all_groups, didx,
          output, cmds, found, calls, faults, store0>>

----------------------------------------------------------------------------
(* Bounds *)

\* How many store commands may raise in one run.
MaxFaults == 1

\* How many --pattern flags a command line may carry.
MaxPatterns == 2

----------------------------------------------------------------------------
(* Sequences helpers *)

Range(s) == {s[i] : i \in 1..Len(s)}

SeqsUpTo(S, n) == UNION {[1..m -> S] : m \in 0..n}

RECURSIVE Perms(_)
Perms(S) ==
    IF S = {} THEN {<<>>}
    ELSE UNION {{<<x>> \o p : p \in Perms(S \ {x})} : x \in S}

----------------------------------------------------------------------------
(* The store *)

\* Key names, as token sequences: "group:x" and "x:groups".
KeyUniverse == {<<"group", ":", "x">>, <<"x", ":", "group", "s">>}

\* A Python value as the client returns it with decode_responses=True:
\* its Python type and its items.  A str has one item, its text.
PyStr(s) == [py |-> "str", items |-> <<s>>]
PyDict(pairs) == [py |-> "dict", items |-> pairs]
PyList(items) == [py |-> "list", items |-> items]
PySet(items) == [py |-> "set", items |-> items]

\* The values a key may hold, one per Redis type; "stream" stands for
\* the types get_group_info has no branch for.
StoreValues ==
    { [type |-> "string", value |-> PyStr(<<"[", "1", "]">>)],
      [type |-> "hash", value |-> PyDict(<< <<"a", "1">>, <<"b", "2">> >>)],
      [type |-> "list", value |-> PyList(<< <<"m1">>, <<"m2">> >>)],
      [type |-> "set", value |-> PySet(<< <<"m1">>, <<"m2">> >>)],
      [type |-> "zset", value |-> PyList(<< <<"m1", "1.0">> >>)],
      [type |-> "stream", value |-> PyList(<< <<"1-0", "f", "v">> >>)] }

Stores == UNION {[S -> StoreValues] : S \in SUBSET KeyUniverse}

\* Redis glob matching of pattern p against key name k, "*" matching any run
\* of tokens.
RECURSIVE GlobMatch(_, _)
GlobMatch(p, k) ==
    IF p = <<>> THEN k = <<>>
    ELSE IF Head(p) = "*"
         THEN GlobMatch(Tail(p), k) \/ (k # <<>> /\ GlobMatch(p, Tail(k)))
         ELSE k # <<>> /\ Head(k) = Head(p) /\ GlobMatch(Tail(p), Tail(k))

\* The replies KEYS may give: the matching keys in any order.
KeysReplies(st, pattern) ==
    Perms({k \in DOMAIN st : GlobMatch(pattern, k)})

\* The commands that only read.
ReadCommands ==
    {"PING", "KEYS", "TYPE", "GET", "HGETALL", "LRANGE 0 -1", "SMEMBERS",
     "ZRANGE 0 -1 WITHSCORES"}

\* The type a value command operates on.
CommandType(cmd) ==
    CASE cmd \in {"GET", "GETDEL"} -> "string"
      [] cmd = "HGETALL" -> "hash"
      [] cmd \in {"LRANGE 0 -1", "LPOP"} -> "list"
      [] cmd \in {"SMEMBERS", "SPOP"} -> "set"
      [] cmd = "ZRANGE 0 -1 WITHSCORES" -> "zset"
      [] OTHER -> "none"

\* The store after command cmd on key k: the read commands leave it alone,
\* the others delete what they return.
StoreAfter(st, cmd, k) ==
    IF cmd \in ReadCommands \/ k \notin DOMAIN st THEN st
    ELSE [x \in DOMAIN st \ {k} |-> st[x]]

\* The store after the commands cs, in order.
RECURSIVE StoreAfterAll(_, _)
StoreAfterAll(st, cs) ==
    IF cs = <<>> THEN st
    ELSE StoreAfterAll(StoreAfter(st, Head(cs).cmd, Head(cs).arg), Tail(cs))

\* No value: what a raising command leaves behind.
NoValue == [py |-> "none", items |-> <<>>]

\* The server answers a value command on a key of another type with a
\* WRONGTYPE error, which the client raises.
WrongType(st, cmd, k) == k \in DOMAIN st /\ st[k].type # CommandType(cmd)

----------------------------------------------------------------------------
(* The result dict and the printed lines *)

\* DictSet deleting the key before it sets it: a key set again moves last.
DictSetMoveToEnd(d, k, v) ==
    Append(SelectSeq(d, LAMBDA e : e[1] # k), <<k, v>>)

\* d[k] = v on a Python dict kept as a sequence of <<key, value>> pairs: an
\* existing key keeps its position and takes the new value, a new key goes last.
DictSet(d, k, v) ==
    IF \E i \in 1..Len(d) : d[i][1] = k
    THEN [i \in 1..Len(d) |-> IF d[i][1] = k THEN <<k, v>> ELSE d[i]]
    ELSE Append(d, <<k, v>>)

DictKeys(d) == {d[i][1] : i \in 1..Len(d)}

DictGet(d, k) == d[CHOOSE i \in 1..Len(d) : d[i][1] = k][2]

\* One printed line: what it is, the key or pattern it is about, its text.
Line(kind, key, text, n) == [kind |-> kind, key |-> key, text |-> text, n |-> n]

\* str(e) of the exception a failing store command raises.
FaultMessage == "Connection reset by peer"
WrongTypeMessage == "WRONGTYPE Operation against a key holding the wrong kind of value"

----------------------------------------------------------------------------
(* connect_to_redis and main *)

\* The four patterns main falls back to.
DefaultPatterns ==
    << <<"group", ":", "*">>, <<"group", "s", ":", "*">>,
       <<"*", ":", "group", "*">>, <<"*", ":", "group", "s", "*">> >>

\* The patterns a --pattern flag may carry here: "*" and "group*".
CustomPatterns == {<<"*">>, <<"group", "*">>}

\* args.patterns: absent (argparse leaves None, modelled as the empty
\* sequence, falsy like None) or the flags' values in command-line order.
ArgsPatterns == SeqsUpTo(CustomPatterns, MaxPatterns)

\* MainPatterns without the test of args.patterns.
MainPatternsIgnoresFlags(args) == DefaultPatterns

\* main, lines 147-150: the list handed to query_groups.
MainPatterns(args) == IF args # <<>> THEN args ELSE DefaultPatterns

\* connect_to_redis whose except clause falls through to return r.
connect_to_redis_ReturnsClient(outcome) ==
    [ r |-> "client",
      cmds |-> IF outcome = "ctor" THEN <<>> ELSE <<[cmd |-> "PING", arg |-> <<>>]>>,
      out |-> IF outcome = "ok"
              THEN <<Line("Connected", <<>>, <<>>, 0)>>
              ELSE <<Line("ErrorConnecting", <<>>, <<FaultMessage>>, 0)>> ]

\* connect_to_redis with the outcome of its try block: "ctor" (redis.Redis
\* raised), "ping" (the probe raised) or "ok".  Returns the client or None,
\* the commands sent and the line printed.
connect_to_redis(outcome) ==
    [ r |-> IF outcome = "ok" THEN "client" ELSE "None",
      cmds |-> IF outcome = "ctor" THEN <<>> ELSE <<[cmd |-> "PING", arg |-> <<>>]>>,
      out |-> IF outcome = "ok"
              THEN <<Line("Connected", <<>>, <<>>, 0)>>
              ELSE <<Line("ErrorConnecting", <<>>, <<FaultMessage>>, 0)>> ]

\* main, lines 142-144: connect, and return when there is no client.
Connect ==
    /\ pc = "connect"
    /\ \E outcome \in {"ok", "ctor", "ping"} :
         LET c == connect_to_redis(outcome) IN
         /\ r' = c.r
         /\ cmds' = cmds \o c.cmds
         /\ store' = StoreAfterAll(store, c.cmds)
         /\ output' = output \o c.out
         /\ pc' = IF c.r = "None" THEN "done" ELSE "patterns"
    /\ UNCHANGED <<args_patterns, patterns, pidx, keys, all_groups, didx,
                   found, calls, faults, store0>>

\* main, lines 147-153: choose the patterns and enter query_groups.
SelectPatterns ==
    /\ pc = "patterns"
    /\ patterns' = MainPatterns(args_patterns)
    /\ pidx' = 1
    /\ all_groups' = <<>>
    /\ pc' = "scan"
    /\ UNCHANGED <<args_patterns, store, r, keys, didx, output, cmds, found,
                   calls, faults, store0>>

----------------------------------------------------------------------------
(* get_all_keys, get_group_info, query_groups *)

\* get_all_keys with the outcome of r.keys: the reply, or [] when it raised.
get_all_keys(reply, raised) ==
    [ keys |-> IF raised THEN <<>> ELSE reply,
      out |-> IF raised
              THEN <<Line("ErrorGettingKeys", <<>>, <<FaultMessage>>, 0)>>
              ELSE <<>> ]

\* FetchCommand with the hash and list branches swapped.
FetchCommandSwapped(key_type) ==
    CASE key_type = "string" -> "GET"
      [] key_type = "hash" -> "LRANGE 0 -1"
      [] key_type = "list" -> "HGETALL"
      [] key_type = "set" -> "SMEMBERS"
      [] key_type = "zset" -> "ZRANGE 0 -1 WITHSCORES"
      [] OTHER -> ""

\* FetchCommand reading strings with GETDEL and lists with LPOP.
FetchCommandDestructive(key_type) ==
    CASE key_type = "string" -> "GETDEL"
      [] key_type = "hash" -> "HGETALL"
      [] key_type = "list" -> "LPOP"
      [] key_type = "set" -> "SMEMBERS"
      [] key_type = "zset" -> "ZRANGE 0 -1 WITHSCORES"
      [] OTHER -> ""

\* The if/elif chain of get_group_info: the fetch each reported type gets
\* ("" : none).
FetchCommand(key_type) ==
    CASE key_type = "string" -> "GET"
      [] key_type = "hash" -> "HGETALL"
      [] key_type = "list" -> "LRANGE 0 -1"
      [] key_type = "set" -> "SMEMBERS"
      [] key_type = "zset" -> "ZRANGE 0 -1 WITHSCORES"
      [] OTHER -> ""

\* ErrorInfo dropping the exception's message.
ErrorInfoNoMessage(msg) == [error |-> ""]

\* The dict the except clause of get_group_info returns.
ErrorInfo(msg) == [error |-> msg]

\* get_group_info on key, with whether r.type and the value fetch raise of
\* their own (a fetch of the wrong type raises in any case).  Returns the
\* info dict, the commands sent, the reported type ("" : TYPE raised) and
\* the fetch's reply.
get_group_info(st, key, typeRaises, fetchRaises) ==
    LET key_type == IF key \in DOMAIN st THEN st[key].type ELSE "none"
        cmd == FetchCommand(key_type)
        typeCmd == [cmd |-> "TYPE", arg |-> key]
        fetchCmd == [cmd |-> cmd, arg |-> key]
    IN  IF typeRaises
        THEN [info |-> ErrorInfo(FaultMessage), cmds |-> <<typeCmd>>,
              key_type |-> "", reply |-> NoValue]
        ELSE IF cmd = ""
        THEN [info |-> [type |-> key_type, value |-> PyStr(<<"Unknown type">>)],
              cmds |-> <<typeCmd>>, key_type |-> key_type, reply |-> NoValue]
        ELSE IF fetchRaises
        THEN [info |-> ErrorInfo(FaultMessage), cmds |-> <<typeCmd, fetchCmd>>,
              key_type |-> key_type, reply |-> NoValue]
        ELSE IF WrongType(st, cmd, key)
        THEN [info |-> ErrorInfo(WrongTypeMessage), cmds |-> <<typeCmd, fetchCmd>>,
              key_type |-> key_type, reply |-> NoValue]
        ELSE [info |-> [type |-> CommandType(cmd), value |-> st[key].value],
              cmds |-> <<typeCmd, fetchCmd>>,
              key_type |-> key_type, reply |-> st[key].value]

\* Line 77 with break for continue: the outer loop ends.
BreakAfterNoKeys(i, n) == n + 1

\* Line 77, continue: the outer loop goes on with the pattern after the i-th
\* of n.
ContinueAfterNoKeys(i, n) == i + 1

\* query_groups, lines 71-79: one pattern of the outer loop, up to its key
\* listing.
ScanPattern ==
    /\ pc = "scan"
    /\ pidx <= Len(patterns)
    /\ LET pattern == patterns[pidx] IN
       \E raised \in BOOLEAN :
       \E reply \in KeysReplies(store, pattern) :
         LET g == get_all_keys(reply, raised) IN
         /\ raised => faults < MaxFaults
         /\ faults' = IF raised THEN faults + 1 ELSE faults
         /\ cmds' = Append(cmds, [cmd |-> "KEYS", arg |-> pattern])
         /\ store' = StoreAfter(store, "KEYS", pattern)
         /\ found' = Append(found, g.keys)
         /\ keys' = g.keys
         /\ IF g.keys = <<>>
            THEN /\ output' = output
                       \o <<Line("Searching", pattern, <<>>, 0)>> \o g.out
                       \o <<Line("NoKeys", pattern, <<>>, 0)>>
                 /\ pidx' = ContinueAfterNoKeys(pidx, Len(patterns))
                 /\ pc' = "scan"
            ELSE /\ output' = output
                       \o <<Line("Searching", pattern, <<>>, 0)>> \o g.out
                       \o <<Line("FoundKeys", pattern, <<>>, Len(g.keys))>>
                 /\ pidx' = pidx
                 /\ pc' = "fetch"
    /\ UNCHANGED <<args_patterns, r, patterns, all_groups, didx, calls, store0>>

\* query_groups, lines 81-83: one key of the inner loop.
FetchKey ==
    /\ pc = "fetch"
    /\ keys # <<>>
    /\ LET key == Head(keys) IN
       \E typeRaises \in BOOLEAN, fetchRaises \in BOOLEAN :
         LET g == get_group_info(store, key, typeRaises, fetchRaises) IN
         /\ ~(typeRaises /\ fetchRaises)
         /\ fetchRaises => Len(g.cmds) = 2
         /\ (typeRaises \/ fetchRaises) => faults < MaxFaults
         /\ faults' = IF typeRaises \/ fetchRaises THEN faults + 1 ELSE faults
         /\ cmds' = cmds \o g.cmds
         /\ store' = StoreAfterAll(store, g.cmds)
         /\ calls' = Append(calls, [key |-> key, pat |-> pidx, cmds |-> g.cmds,
                                    key_type |-> g.key_type, reply |-> g.reply,
                                    info |-> g.info])
         /\ all_groups' = DictSet(all_groups, key, g.info)
         /\ keys' = Tail(keys)
         /\ pidx' = IF Tail(keys) = <<>> THEN pidx + 1 ELSE pidx
         /\ pc' = IF Tail(keys) = <<>> THEN "scan" ELSE "fetch"
    /\ UNCHANGED <<args_patterns, r, patterns, didx, output, found, store0>>

\* query_groups, line 85: the loop is over, main goes on to display.
ReturnGroups ==
    /\ pc = "scan"
    /\ pidx > Len(patterns)
    /\ pc' = "display"
    /\ UNCHANGED <<args_patterns, store, r, patterns, pidx, keys, all_groups,
                   didx, output, cmds, found, calls, faults, store0>>

----------------------------------------------------------------------------
(* json.loads and json.dumps(indent=2), on token sequences *)

\* The tokens a string value is made of here: the JSON punctuation, the
\* digit 1, the string literal "a" and a space.
Tokens == {"[", "]", "{", "}", ",", ":", "1", "\"a\"", " "}

\* A parse failure (json.JSONDecodeError).
ParseError == [ok |-> FALSE, end |-> 0]

\* json.decoder.WHITESPACE.match(s, i).end(): the first index at or after i
\* that holds no whitespace.
RECURSIVE SkipWs(_, _)
SkipWs(s, i) ==
    IF i <= Len(s) /\ s[i] \in {" ", "\n"} THEN SkipWs(s, i + 1) ELSE i

\* The end of the run of digits starting at i (the NUMBER_RE match).
RECURSIVE DigitsEnd(_, _)
DigitsEnd(s, i) == IF i <= Len(s) /\ s[i] = "1" THEN DigitsEnd(s, i + 1) ELSE i

RECURSIVE ScanOnce(_, _)
RECURSIVE JSONArray(_, _, _)
RECURSIVE JSONObject(_, _, _)

\* json.scanner scan_once at index i: the value that starts there and the
\* index after it.
ScanOnce(s, i) ==
    IF i > Len(s) THEN ParseError
    ELSE CASE s[i] = "\"a\"" ->
                [ok |-> TRUE, val |-> [t |-> "str", s |-> s[i]], end |-> i + 1]
           [] s[i] = "{" ->
                LET j == SkipWs(s, i + 1) IN
                IF j <= Len(s) /\ s[j] = "}"
                THEN [ok |-> TRUE, val |-> [t |-> "obj", members |-> <<>>],
                      end |-> j + 1]
                ELSE JSONObject(s, j, <<>>)
           [] s[i] = "[" ->
                LET j == SkipWs(s, i + 1) IN
                IF j <= Len(s) /\ s[j] = "]"
                THEN [ok |-> TRUE, val |-> [t |-> "arr", elems |-> <<>>],
                      end |-> j + 1]
                ELSE JSONArray(s, j, <<>>)
           [] s[i] = "1" ->
                LET j == DigitsEnd(s, i) IN
                [ok |-> TRUE, val |-> [t |-> "num", digits |-> SubSeq(s, i, j - 1)],
                 end |-> j]
           [] OTHER -> ParseError

\* json.decoder.JSONArray from the value at index i on, acc the elements
\* read so far.
JSONArray(s, i, acc) ==
    LET v == ScanOnce(s, i) IN
    IF ~v.ok THEN ParseError
    ELSE LET j == SkipWs(s, v.end)
             elems == Append(acc, v.val)
         IN  IF j > Len(s) THEN ParseError
             ELSE IF s[j] = "]"
             THEN [ok |-> TRUE, val |-> [t |-> "arr", elems |-> elems], end |-> j + 1]
             ELSE IF s[j] = ","
             THEN JSONArray(s, SkipWs(s, j + 1), elems)
             ELSE ParseError

\* json.decoder.JSONObject from the property name at index i on, acc the
\* members read so far; a repeated name keeps its place and takes the later
\* value, as the dict built from the pairs does.
JSONObject(s, i, acc) ==
    IF i > Len(s) \/ s[i] # "\"a\"" THEN ParseError
    ELSE LET c == SkipWs(s, i + 1) IN
         IF c > Len(s) \/ s[c] # ":" THEN ParseError
         ELSE LET v == ScanOnce(s, SkipWs(s, c + 1)) IN
              IF ~v.ok THEN ParseError
              ELSE LET j == SkipWs(s, v.end)
                       members == DictSet(acc, s[i], v.val)
                   IN  IF j > Len(s) THEN ParseError
                       ELSE IF s[j] = "}"
                       THEN [ok |-> TRUE, val |-> [t |-> "obj", members |-> members],
                             end |-> j + 1]
                       ELSE IF s[j] = ","
                       THEN JSONObject(s, SkipWs(s, j + 1), members)
                       ELSE ParseError

\* json.loads: leading whitespace skipped, one value, trailing whitespace
\* skipped, and nothing after it ("Extra data" otherwise).
JsonLoads(s) ==
    LET v == ScanOnce(s, SkipWs(s, 1)) IN
    IF ~v.ok THEN ParseError
    ELSE IF SkipWs(s, v.end) # Len(s) + 1 THEN ParseError
    ELSE v

\* The newline and indentation json.dumps(indent=2) puts before an item at
\* nesting level lvl.
RECURSIVE Spaces(_)
Spaces(n) == IF n = 0 THEN <<>> ELSE <<" ">> \o Spaces(n - 1)

NewlineIndent(lvl) == <<"\n">> \o Spaces(2 * lvl)

RECURSIVE JsonDumps(_, _)
RECURSIVE DumpItems(_, _, _, _)

\* The items of an array (isObj FALSE) or members of an object from index i
\* on, each on its own line at level lvl, separated by commas.
DumpItems(items, i, lvl, isObj) ==
    IF i > Len(items) THEN <<>>
    ELSE NewlineIndent(lvl)
         \o (IF isObj
             THEN <<items[i][1], ":", " ">> \o JsonDumps(items[i][2], lvl)
             ELSE JsonDumps(items[i], lvl))
         \o (IF i < Len(items) THEN <<",">> ELSE <<>>)
         \o DumpItems(items, i + 1, lvl, isObj)

\* json.dumps(v, indent=2) of a value at nesting level lvl.
JsonDumps(v, lvl) ==
    CASE v.t = "num" -> v.digits
      [] v.t = "str" -> <<v.s>>
      [] v.t = "arr" ->
           IF v.elems = <<>> THEN <<"[", "]">>
           ELSE <<"[">> \o DumpItems(v.elems, 1, lvl + 1, FALSE)
                \o NewlineIndent(lvl) \o <<"]">>
      [] v.t = "obj" ->
           IF v.members = <<>> THEN <<"{", "}">>
           ELSE <<"{">> \o DumpItems(v.members, 1, lvl + 1, TRUE)
                \o NewlineIndent(lvl) \o <<"}">>

----------------------------------------------------------------------------
(* display_group_info *)

\* LooksLikeJson testing for '{' only.
LooksLikeJsonObjectOnly(value) == value # <<>> /\ Head(value) = "{"

\* value.startswith('{') or value.startswith('[')
LooksLikeJson(value) == value # <<>> /\ Head(value) \in {"{", "["}

\* Lines 113-123: the lines printed for a str value.
DisplayStr(key, value) ==
    IF LooksLikeJson(value)
    THEN LET parsed == JsonLoads(value) IN
         IF parsed.ok
         THEN <<Line("ValueJsonHeader", key, <<>>, 0),
                Line("ValueJson", key, JsonDumps(parsed.val, 0), 0)>>
         ELSE <<Line("ValueRaw", key, value, 0)>>
    ELSE <<Line("ValueRaw", key, value, 0)>>

\* Lines 103-125: the lines printed for the value of an entry.
DisplayValue(key, value) ==
    CASE value.py = "dict" ->
           <<Line("ValueHeader", key, <<>>, 0)>>
           \o [i \in 1..Len(value.items) |-> Line("Field", key, value.items[i], 0)]
      [] value.py \in {"list", "set"} ->
           <<Line("ValueHeader", key, <<>>, 0)>>
           \o [i \in 1..Len(value.items) |-> Line("Item", key, value.items[i], 0)]
      [] value.py = "str" -> DisplayStr(key, value.items[1])
      [] OTHER -> <<Line("ValueRaw", key, value.items, 0)>>

\* Lines 97-127: one iteration of the loop over groups.items().  info['type']
\* is read first and raises KeyError when info has no 'type'.
DisplayEntry(key, info) ==
    IF "type" \notin DOMAIN info
    THEN [raised |-> TRUE, out |-> <<Line("Key", key, <<>>, 0)>>]
    ELSE [raised |-> FALSE,
          out |-> <<Line("Key", key, <<>>, 0), Line("Type", key, <<info.type>>, 0)>>
                  \o (IF "error" \in DOMAIN info
                      THEN <<Line("Error", key, <<info.error>>, 0)>>
                      ELSE DisplayValue(key, info.value))
                  \o <<Line("Separator", key, <<>>, 0)>>]

\* display_group_info, lines 90-94.
DisplayStart ==
    /\ pc = "display"
    /\ IF all_groups = <<>>
       THEN /\ output' = Append(output, Line("NoGroups", <<>>, <<>>, 0))
            /\ pc' = "done"
            /\ didx' = didx
       ELSE /\ output' = Append(output, Line("FoundEntries", <<>>, <<>>, Len(all_groups)))
            /\ pc' = "render"
            /\ didx' = 1
    /\ UNCHANGED <<args_patterns, store, r, patterns, pidx, keys, all_groups,
                   cmds, found, calls, faults, store0>>

\* display_group_info, lines 96-127: one entry.  An exception it raises is
\* caught nowhere: main ends with a traceback.
DisplayNext ==
    /\ pc = "render"
    /\ didx <= Len(all_groups)
    /\ LET d == DisplayEntry(all_groups[didx][1], all_groups[didx][2]) IN
       /\ output' = output \o d.out
       /\ IF d.raised
          THEN pc' = "crashed" /\ didx' = didx
          ELSE /\ didx' = didx + 1
               /\ pc' = IF didx = Len(all_groups) THEN "done" ELSE "render"
    /\ UNCHANGED <<args_patterns, store, r, patterns, pidx, keys, all_groups,
                   cmds, found, calls, faults, store0>>

----------------------------------------------------------------------------
(* One run of main against any store, command line and fault schedule *)

Init ==
    /\ pc = "connect"
    /\ args_patterns \in ArgsPatterns
    /\ store \in Stores
    /\ store0 = store
    /\ r = "None"
    /\ patterns = <<>>
    /\ pidx = 0
    /\ keys = <<>>
    /\ all_groups = <<>>
    /\ didx = 0
    /\ output = <<>>
    /\ cmds = <<>>
    /\ found = <<>>
    /\ calls = <<>>
    /\ faults = 0

Next ==
    \/ Connect
    \/ SelectPatterns
    \/ ScanPattern
    \/ FetchKey
    \/ ReturnGroups
    \/ DisplayStart
    \/ DisplayNext

Spec == Init /\ [][Next]_vars

----------------------------------------------------------------------------
(* display_group_info applied to any mapping of string entries *)

\* How long a string value may be, in tokens.
MaxLen == 3

\* Longer string values: objects with members, a repeated name, a trailing
\* comma, nesting, text after the value.
LongStrings ==
    { <<"{", "\"a\"", ":", "1", "}">>,
      <<"{", " ", "\"a\"", " ", ":", " ", "1", "1", " ", "}", " ">>,
      <<"{", "\"a\"", ":", "[", "1", ",", "\"a\"", "]", "}">>,
      <<"{", "\"a\"", ":", "1", ",", "\"a\"", ":", "[", "]", "}">>,
      <<"{", "\"a\"", ":", "1", ",", "}">>,
      <<"[", "[", "1", "]", ",", "{", "\"a\"", ":", "{", "}", "}", "]">>,
      <<"[", "1", "]", "]">>,
      <<" ", "{", "\"a\"", ":", "1", "}">> }

StringValues == SeqsUpTo(Tokens, MaxLen) \cup LongStrings

\* What get_group_info returns for a string key holding s.
StringInfo(s) == [type |-> "string", value |-> PyStr(s)]

\* The strings of the entry that follows: valid JSON, broken JSON, plain.
FollowStrings == {<<"[", "1", "]">>, <<"{", "1">>, <<"1">>}

FirstKey == <<"group", ":", "x">>
SecondKey == <<"x", ":", "group", "s">>

DisplayGroups ==
    {<<>>}
    \cup {<< <<FirstKey, StringInfo(s)>> >> : s \in StringValues}
    \cup {<< <<FirstKey, StringInfo(s)>>, <<SecondKey, StringInfo(t)>> >> :
            s \in StringValues, t \in FollowStrings}

InitDisplay ==
    /\ pc = "display"
    /\ all_groups \in DisplayGroups
    /\ store = [k \in DictKeys(all_groups) |->
                  [type |-> "string", value |-> DictGet(all_groups, k).value]]
    /\ store0 = store
    /\ args_patterns = <<>>
    /\ r = "client"
    /\ patterns = DefaultPatterns
    /\ pidx = Len(DefaultPatterns) + 1
    /\ keys = <<>>
    /\ didx = 0
    /\ output = <<>>
    /\ cmds = <<>>
    /\ found = <<>>
    /\ calls = <<>>
    /\ faults = 0

NextDisplay == DisplayStart \/ DisplayNext

SpecDisplay == InitDisplay /\ [][NextDisplay]_vars

----------------------------------------------------------------------------
(* Vocabulary of the properties *)

\* query_groups has returned.
QueryReturned == r = "client" /\ pc \in {"display", "render", "done", "crashed"}

\* main is over, normally ("done") or by an uncaught exception ("crashed").
Ended == pc \in {"done", "crashed"}

\* get_group_info call c ended in its except clause.
Raised(c) == "error" \in DOMAIN c.info

\* The indices of the get_group_info calls on key k.
CallsOn(k) == {n \in 1..Len(calls) : calls[n].key = k}

Max(S) == CHOOSE x \in S : \A y \in S : y <= x
Min(S) == CHOOSE x \in S : \A y \in S : x <= y

\* The lines printed about key k.
LinesOf(k) == SelectSeq(output, LAMBDA l : l.key = k)

\* Entry i of the mapping has been displayed down to its closing rule.
Displayed(i) ==
    \E j \in 1..Len(output) :
        output[j].kind = "Separator" /\ output[j].key = all_groups[i][1]

\* The patterns of the KEYS commands sent so far, in order.
Scanned ==
    LET ks == SelectSeq(cmds, LAMBDA c : c.cmd = "KEYS")
    IN  [i \in 1..Len(ks) |-> ks[i].arg]

\* How many KEYS commands precede command j.
KeysBefore(j) == Cardinality({i \in 1..j : cmds[i].cmd = "KEYS"})

\* Every key some listing returned.
Listed == UNION {Range(found[i]) : i \in 1..Len(found)}

RECURSIVE SumLen(_)
SumLen(ss) == IF ss = <<>> THEN 0 ELSE Len(Head(ss)) + SumLen(Tail(ss))

----------------------------------------------------------------------------
(* C1 *)

\* C1: when the fetch of a key raised, the mapping holds an error entry with
\* the message for it, and the run still ends normally having displayed
\* every entry of the mapping, wherever the failing key stands.
C1_RunCompletesDespiteKeyError ==
    (Ended /\ r = "client") =>
        /\ \A n \in 1..Len(calls) :
              (Raised(calls[n]) /\ n = Max(CallsOn(calls[n].key))) =>
                  DictGet(all_groups, calls[n].key).error = FaultMessage
        /\ pc = "done"
        /\ \A i \in 1..Len(all_groups) : Displayed(i)

----------------------------------------------------------------------------
(* C2 *)

\* C2: a failed connection ends the run: connect_to_redis reports it and
\* returns None, main stops having sent no KEYS, TYPE or fetch and having
\* displayed nothing; there is one connection attempt per run, and no read
\* is sent before a successful ping.
C2_ConnectionFailureIsFatal ==
    /\ Len(SelectSeq(cmds, LAMBDA c : c.cmd = "PING")) <= 1
    /\ Len(SelectSeq(output, LAMBDA l : l.kind \in {"Connected", "ErrorConnecting"}))
          = IF pc = "connect" THEN 0 ELSE 1
    /\ (pc # "connect" /\ r = "None") =>
          /\ pc = "done"
          /\ \A j \in 1..Len(cmds) : cmds[j].cmd = "PING"
          /\ Len(output) = 1
          /\ output[1].kind = "ErrorConnecting"
    /\ \A j \in 1..Len(cmds) :
          cmds[j].cmd # "PING" =>
              /\ j > 1
              /\ cmds[1].cmd = "PING"
              /\ output[1].kind = "Connected"

\* The ping raised and main has returned.
C2_Witness ==
    /\ pc = "done"
    /\ r = "None"
    /\ Len(cmds) = 1
    /\ cmds[1].cmd = "PING"

----------------------------------------------------------------------------
(* C3 *)

\* The tags of a Tagged Value, the code's 'zset' being the sorted-set tag.
TypeTags == {"string", "hash", "list", "set", "zset", "error", "unknown"}

\* C3: every value query_groups stores carries a type tag, one of string,
\* hash, list, set, sorted-set, error, unknown, whatever the key's type and
\* whether its fetch succeeded or raised.
C3_EveryValueIsTagged ==
    \A i \in 1..Len(all_groups) :
        /\ "type" \in DOMAIN all_groups[i][2]
        /\ all_groups[i][2].type \in TypeTags

----------------------------------------------------------------------------
(* C4 *)

HandledTypes == {"string", "hash", "list", "set", "zset"}

\* The fetch the dispatch table of the specification gives each type.
TableFetch(t) ==
    CASE t = "string" -> "GET"
      [] t = "hash" -> "HGETALL"
      [] t = "list" -> "LRANGE 0 -1"
      [] t = "set" -> "SMEMBERS"
      [] t = "zset" -> "ZRANGE 0 -1 WITHSCORES"

\* C4: get_group_info sends TYPE first; when TYPE reports one of the five
\* handled types it sends exactly one fetch, the one of the table, and
\* returns what that fetch returned; when TYPE reports another type it sends
\* no fetch and returns the 'Unknown type' marker as the value.
C4_TypeThenMatchingFetch ==
    \A n \in 1..Len(calls) :
        LET c == calls[n]
            typeCmd == [cmd |-> "TYPE", arg |-> c.key]
        IN  /\ c.cmds[1] = typeCmd
            /\ c.key_type \in HandledTypes =>
                  c.cmds = <<typeCmd, [cmd |-> TableFetch(c.key_type), arg |-> c.key]>>
            /\ (c.key_type # "" /\ c.key_type \notin HandledTypes) =>
                  /\ c.cmds = <<typeCmd>>
                  /\ c.info.value = PyStr(<<"Unknown type">>)
            /\ c.reply # NoValue =>
                  /\ c.reply = store0[c.key].value
                  /\ c.info.value = c.reply

\* One run fetched a sorted set and met a key of an unhandled type.
C4_Witness ==
    /\ \E n \in 1..Len(calls) :
          calls[n].key_type = "zset" /\ calls[n].reply # NoValue
    /\ \E n \in 1..Len(calls) : calls[n].key_type = "stream"

----------------------------------------------------------------------------
(* C5 *)

\* C5 as stated: once query_groups has returned, every key any listing
\* returned has an entry in the mapping, and the entry of every key whose
\* TYPE query or fetch raised carries the failure message.
C5_FailingKeyKeepsItsMessage ==
    QueryReturned =>
        /\ Listed \subseteq DictKeys(all_groups)
        /\ \A n \in 1..Len(calls) :
              Raised(calls[n]) =>
                  DictGet(all_groups, calls[n].key) = [error |-> FaultMessage]

\* C5 as amended: once query_groups has returned, every key any listing
\* returned has an entry in the mapping, the keys and patterns after a
\* failing key included; a key's entry carries the failure message when the
\* last fetch of that key raised.
C5_ScanSurvivesFetchFailure ==
    QueryReturned =>
        /\ Len(found) = Len(patterns)
        /\ Listed \subseteq DictKeys(all_groups)
        /\ \A n \in 1..Len(calls) :
              (Raised(calls[n]) /\ n = Max(CallsOn(calls[n].key))) =>
                  DictGet(all_groups, calls[n].key) = [error |-> FaultMessage]

\* A fetch raised, and a later pattern's key was fetched after it and is in
\* the mapping beside the failing key's error entry.
C5_Witness ==
    /\ QueryReturned
    /\ \E n \in 1..Len(calls) :
          /\ Raised(calls[n])
          /\ "error" \in DOMAIN DictGet(all_groups, calls[n].key)
          /\ \E m \in (n + 1)..Len(calls) :
                /\ calls[m].pat > calls[n].pat
                /\ calls[m].key # calls[n].key
                /\ "type" \in DOMAIN DictGet(all_groups, calls[m].key)

----------------------------------------------------------------------------
(* C6 *)

\* C6: for a pattern whose listing is empty the output says no keys were
\* found for it, no TYPE or fetch is sent and nothing is added to the
\* mapping for it, and the scan goes on with the next pattern, to the last.
C6_EmptyPatternIsSkipped ==
    /\ DictKeys(all_groups) = {calls[n].key : n \in 1..Len(calls)}
    /\ pc = "scan" => pidx = Len(found) + 1
    /\ QueryReturned => Len(found) = Len(patterns)
    /\ \A i \in 1..Len(found) :
          found[i] = <<>> =>
              /\ \E j \in 1..Len(output) :
                    output[j] = Line("NoKeys", patterns[i], <<>>, 0)
              /\ \A n \in 1..Len(calls) : calls[n].pat # i
              /\ \A j \in 1..Len(cmds) :
                    KeysBefore(j) = i => cmds[j].cmd = "KEYS"

\* A pattern without keys was followed by one with keys, which were fetched.
C6_Witness ==
    /\ QueryReturned
    /\ \E i \in 1..(Len(found) - 1) :
          /\ found[i] = <<>>
          /\ found[i + 1] # <<>>
          /\ \E n \in 1..Len(calls) : calls[n].pat = i + 1

----------------------------------------------------------------------------
(* C7 *)

\* The patterns the claim expects for a command line.
ExpectedPatterns ==
    IF Len(args_patterns) = 0
    THEN << <<"group", ":", "*">>, <<"group", "s", ":", "*">>,
            <<"*", ":", "group", "*">>, <<"*", ":", "group", "s", "*">> >>
    ELSE args_patterns

\* C7: without --pattern flags the four defaults are scanned, in their
\* declared order; with flags, exactly the flags' patterns in the order
\* given; one pattern after another, every TYPE and fetch being for a key of
\* the latest listing.
C7_PatternsScannedInOrder ==
    /\ Len(Scanned) <= Len(ExpectedPatterns)
    /\ Scanned = SubSeq(ExpectedPatterns, 1, Len(Scanned))
    /\ QueryReturned => Scanned = ExpectedPatterns
    /\ \A j \in 1..Len(cmds) :
          cmds[j].cmd \notin {"PING", "KEYS"} =>
              cmds[j].arg \in Range(found[KeysBefore(j)])

\* A run without flags has scanned the four defaults.
C7_Witness ==
    /\ pc = "done"
    /\ args_patterns = <<>>
    /\ Len(Scanned) = 4
    /\ Len(calls) > 0

----------------------------------------------------------------------------
(* C8 *)

\* The lines display_group_info prints for the value of an entry.
ValueLinesOf(k) ==
    SelectSeq(output, LAMBDA l : l.key = k /\ l.kind \notin {"Key", "Type", "Separator"})

\* Entry i holds a str fetched from a string key.
IsStringEntry(i) ==
    /\ "value" \in DOMAIN all_groups[i][2]
    /\ all_groups[i][2].value.py = "str"

----------------------------------------------------------------------------
(* C9 *)

\* C9: the run only reads: every command sent is the probe, KEYS, TYPE, GET,
\* HGETALL, LRANGE, SMEMBERS or ZRANGE, and the store's keys, types and
\* values stay what they were before the run.
C9_StoreUnchanged ==
    /\ store = store0
    /\ \A j \in 1..Len(cmds) :
          cmds[j].cmd \in {"PING", "KEYS", "TYPE", "GET", "HGETALL", "LRANGE 0 -1",
                           "SMEMBERS", "ZRANGE 0 -1 WITHSCORES"}

\* A run that fetched a string and a list has ended.
C9_Witness ==
    /\ Ended
    /\ \E j \in 1..Len(cmds) : cmds[j].cmd = "GET"
    /\ \E j \in 1..Len(cmds) : cmds[j].cmd = "LRANGE 0 -1"

----------------------------------------------------------------------------
(* C10 *)

\* C10: a key listed under several patterns is fetched once per listing and
\* has one entry, holding the value of its last fetch at the place of its
\* first; the mapping's keys are the union of the listings, and the entry
\* count displayed is the number of distinct keys, at most the sum of the
\* per-pattern counts.
C10_OneEntryPerKey ==
    /\ Len(all_groups) = Cardinality(DictKeys(all_groups))
    /\ \A i \in 1..Len(all_groups) :
          LET k == all_groups[i][1] IN
          /\ CallsOn(k) # {}
          /\ all_groups[i][2] = calls[Max(CallsOn(k))].info
          /\ \A j \in (i + 1)..Len(all_groups) :
                Min(CallsOn(k)) < Min(CallsOn(all_groups[j][1]))
    /\ QueryReturned =>
          /\ DictKeys(all_groups) = Listed
          /\ \A k \in Listed :
                Cardinality(CallsOn(k))
                   = Cardinality({i \in 1..Len(found) : k \in Range(found[i])})
    /\ \A j \in 1..Len(output) :
          output[j].kind = "FoundEntries" =>
              /\ output[j].n = Cardinality(Listed)
              /\ output[j].n <= SumLen(found)

\* A key listed first under one pattern and again under a later one: its two
\* fetches differ, its entry holds the later one and stays first, and the
\* count displayed is below the sum of the per-pattern counts.
C10_Witness ==
    /\ pc = "done"
    /\ Len(all_groups) = 2
    /\ LET k == all_groups[1][1] IN
          /\ Cardinality(CallsOn(k)) = 2
          /\ calls[Min(CallsOn(k))].info # calls[Max(CallsOn(k))].info
          /\ Max(CallsOn(k)) > Max(CallsOn(all_groups[2][1]))
    /\ \E j \in 1..Len(output) :
          output[j].kind = "FoundEntries" /\ output[j].n < SumLen(found)

====
